---- MODULE Spec2Model ----
(***************************************************************************)
(* A model of src/src/main.rs: the periodic scheduler of main, the batch   *)
(* fan-out/fan-in of run_symbols_report, the per-symbol worker task        *)
(* (fetch_closing_data followed by process_closing_data) and the tokio     *)
(* interval with MissedTickBehavior::Delay that paces the loop.            *)
(*                                                                         *)
(* Time is a single integer clock in the spec's "time units" (seconds in   *)
(* the source).  The interval's 5 ms lateness tolerance is below one unit, *)
(* so "late" is now > deadline.                                            *)
(***************************************************************************)
EXTENDS Integers, Sequences, FiniteSets, TLC

(* ------------------------------ constants ------------------------------ *)

\* Duration::from_secs(30), the period of the interval.
Period == 30

\* The moment main starts (Utc::now() at startup reads this clock value).
StartupTime == 0

(* -------------------------------- bounds ------------------------------- *)

\* Longest symbol list given on the command line.
MaxSymbols == 2
\* Number of ticks the scheduler is followed for.
MaxTicks == 3
\* The clock is followed up to this value.
MaxTime == 120
\* The clock advances in steps of this many units.
Quantum == 15
\* Most quotes the provider returns for one request.
MaxQuotes == 1

(* -------------------------------- inputs ------------------------------- *)

\* default_value = "AAPL,MSFT,UBER,GOOG"
DefaultSymbols == <<"AAPL", "MSFT", "UBER", "GOOG">>

SymbolNames == {DefaultSymbols[1], DefaultSymbols[2]}

\* opts.symbols.split(','): a non-empty list, duplicates allowed.  The
\* names are interchangeable, so the lists that begin with the first
\* default symbol stand for all of them.
SymbolLists ==
  {s \in UNION { [1..n -> SymbolNames] : n \in 1..MaxSymbols } :
     s[1] = DefaultSymbols[1]}

\* opts.from parsed: a start before and one after the startup time
\* (start <= end is not enforced).
FromTimes == {StartupTime - 10, StartupTime + 10}

\* The quotes of an answer: the scheduler and the batch depend on an answer
\* only through its being a failure, empty or not empty.
Timestamps == {1, 2}
Prices == {1}

\* The quotes answered to a task carry one timestamp; the order the
\* fetcher gives to quotes is examined on FetchResponses.
TaskTimestamps == {1}

Quotes == [timestamp : TaskTimestamps, adjclose : Prices]

QuoteLists == UNION { [1..n -> Quotes] : n \in 0..MaxQuotes }

\* What the provider answers to one get_quote_history call: the request
\* fails, the response cannot be decoded into quotes, or quotes arrive.
ProviderResponses ==
  {[kind |-> "request_error", quotes |-> <<>>],
   [kind |-> "quotes_error", quotes |-> <<>>]}
  \cup {[kind |-> "ok", quotes |-> q] : q \in QuoteLists}

(* ------------------------------- fetcher ------------------------------- *)

\* Insert quote q into the sorted list s behind every quote whose key is
\* not greater: the step of a stable sort.
RECURSIVE InsertByTimestamp(_, _)
InsertByTimestamp(q, s) ==
  IF s = <<>> THEN <<q>>
  ELSE IF Head(s).timestamp <= q.timestamp
       THEN <<Head(s)>> \o InsertByTimestamp(q, Tail(s))
       ELSE <<q>> \o s

\* Insert quote q into the sorted list s ahead of every quote whose key
\* is not smaller.
RECURSIVE InsertAheadOfEquals(_, _)
InsertAheadOfEquals(q, s) ==
  IF s = <<>> THEN <<q>>
  ELSE IF Head(s).timestamp < q.timestamp
       THEN <<Head(s)>> \o InsertAheadOfEquals(q, Tail(s))
       ELSE <<q>> \o s

\* Variant of sort_by_cached_key: ascending, quotes of equal timestamp
\* end up in reverse order.
RECURSIVE sort_unstable_by_key(_)
sort_unstable_by_key(qs) ==
  IF qs = <<>> THEN <<>>
  ELSE InsertAheadOfEquals(qs[Len(qs)],
                           sort_unstable_by_key(SubSeq(qs, 1, Len(qs) - 1)))

\* quotes.sort_by_cached_key(|k| k.timestamp): stable, ascending.
RECURSIVE sort_by_cached_key(_)
sort_by_cached_key(qs) ==
  IF qs = <<>> THEN <<>>
  ELSE InsertByTimestamp(qs[Len(qs)],
                         sort_by_cached_key(SubSeq(qs, 1, Len(qs) - 1)))

\* Variant of fetch_closing_data: no quotes are reported as a failure.
fetch_closing_data_empty_is_error(resp) ==
  IF resp.kind # "ok" \/ resp.quotes = <<>>
  THEN [ok |-> FALSE, err |-> "InvalidData", closes |-> <<>>]
  ELSE LET sorted == sort_by_cached_key(resp.quotes)
       IN [ok |-> TRUE, err |-> "none",
           closes |-> [i \in 1..Len(sorted) |-> sorted[i].adjclose]]

\* fetch_closing_data: both provider failures map onto InvalidData; no
\* quotes give Ok(vec![]); otherwise the adjusted closes in timestamp order.
fetch_closing_data(resp) ==
  IF resp.kind = "request_error" THEN [ok |-> FALSE, err |-> "InvalidData", closes |-> <<>>]
  ELSE IF resp.kind = "quotes_error" THEN [ok |-> FALSE, err |-> "InvalidData", closes |-> <<>>]
  ELSE IF resp.quotes = <<>> THEN [ok |-> TRUE, err |-> "none", closes |-> <<>>]
  ELSE LET sorted == sort_by_cached_key(resp.quotes)
       IN [ok |-> TRUE, err |-> "none",
           closes |-> [i \in 1..Len(sorted) |-> sorted[i].adjclose]]

(* --------------------------- signal calculators ------------------------ *)

\* Prices are finite f64 values, modelled by integers; quotients are exact
\* fractions [n, d] in lowest terms with d > 0 (rounding is not modelled).
\* A division by zero gives a value that is not finite, d = 0.

\* Option<T>
None == [some |-> FALSE]
Some(v) == [some |-> TRUE, val |-> v]
\* Option::unwrap_or
unwrap_or(o, default) == IF o.some THEN o.val ELSE default

Abs(x) == IF x < 0 THEN -x ELSE x
Sign(x) == IF x < 0 THEN -1 ELSE IF x > 0 THEN 1 ELSE 0

RECURSIVE Gcd(_, _)
Gcd(a, b) == IF b = 0 THEN a ELSE Gcd(b, a % b)

\* The f64 division a / b of two integer-valued floats.
Div(a, b) ==
  IF b = 0 THEN [n |-> Sign(a), d |-> 0]
  ELSE LET g == Gcd(Abs(a), Abs(b)) IN
       [n |-> (Sign(b) * a) \div g, d |-> Abs(b) \div g]

\* An integer-valued float as a fraction.
Float(x) == [n |-> x, d |-> 1]

\* The f64 product of a fraction and an integer-valued float.
Times(q, k) == IF q.d = 0 THEN [n |-> q.n * Sign(k), d |-> 0] ELSE Div(q.n * k, q.d)

\* f64::MAX and f64::MIN, the seeds of the folds: finite values beyond
\* every price.
F64_MAX == 2147483647
F64_MIN == -2147483647

\* Variant of PriceDifference_calculate: the divisor is not guarded.
PriceDifference_unguarded(series) ==
  IF series = <<>> THEN None
  ELSE LET first == series[1]
           last == series[Len(series)]
       IN Some(<<last - first, Div(last - first, first)>>)

\* PriceDifference::calculate
PriceDifference_calculate(series) ==
  IF series = <<>> THEN None
  ELSE LET first == series[1]
           last == series[Len(series)]
           abs_diff == last - first
           divisor == IF first = 0 THEN 1 ELSE first
           rel_diff == Div(abs_diff, divisor)
       IN Some(<<abs_diff, rel_diff>>)

\* f64::min and f64::max
f64_min(a, b) == IF a < b THEN a ELSE b
f64_max(a, b) == IF a > b THEN a ELSE b

\* series.iter().fold(acc, |acc, q| acc.min(*q))
RECURSIVE fold_min(_, _)
fold_min(acc, series) ==
  IF series = <<>> THEN acc
  ELSE fold_min(f64_min(acc, Head(series)), Tail(series))

\* series.iter().fold(acc, |acc, q| acc.max(*q))
RECURSIVE fold_max(_, _)
fold_max(acc, series) ==
  IF series = <<>> THEN acc
  ELSE fold_max(f64_max(acc, Head(series)), Tail(series))

\* Variant of MinPrice_calculate: the fold starts from 0.0.
MinPrice_seed_zero(series) ==
  IF series = <<>> THEN None ELSE Some(fold_min(0, series))

\* MinPrice::calculate
MinPrice_calculate(series) ==
  IF series = <<>> THEN None ELSE Some(fold_min(F64_MAX, series))

\* MaxPrice::calculate
MaxPrice_calculate(series) ==
  IF series = <<>> THEN None ELSE Some(fold_max(F64_MIN, series))

\* slice::windows(size), size >= 1: every contiguous run of size elements.
windows(series, size) ==
  [i \in 1..(IF Len(series) >= size THEN Len(series) - size + 1 ELSE 0) |->
     SubSeq(series, i, i + size - 1)]

\* w.iter().sum::<f64>()
RECURSIVE sum(_)
sum(w) == IF w = <<>> THEN 0 ELSE Head(w) + sum(Tail(w))

\* Variant of WindowedSMA_calculate: a window that does not fit is absence.
WindowedSMA_absent_when_short(window_size, series) ==
  IF series # <<>> /\ window_size > 1 /\ window_size <= Len(series)
  THEN LET ws == windows(series, window_size) IN
       Some([i \in 1..Len(ws) |-> Div(sum(ws[i]), Len(ws[i]))])
  ELSE None

\* Variant of WindowedSMA_calculate: the last window is left out.
WindowedSMA_drops_last(window_size, series) ==
  IF series # <<>> /\ window_size > 1
  THEN LET ws == windows(series, window_size) IN
       Some([i \in 1..(IF Len(ws) > 0 THEN Len(ws) - 1 ELSE 0) |->
               Div(sum(ws[i]), Len(ws[i]))])
  ELSE None

\* WindowedSMA::calculate, for WindowedSMA { window_size }
WindowedSMA_calculate(window_size, series) ==
  IF series # <<>> /\ window_size > 1
  THEN LET ws == windows(series, window_size) IN
       Some([i \in 1..Len(ws) |-> Div(sum(ws[i]), Len(ws[i]))])
  ELSE None

(* -------------------------------- worker ------------------------------- *)

\* WindowedSMA { window_size: 30 } in process_closing_data
WindowSize == 30

\* Variant of process_closing_data: the series is not tested for being
\* empty, a record of zeros is printed for an empty one.
process_closing_data_unguarded(symbol, closes, start) ==
  IF closes # <<>>
  THEN LET pct_change == unwrap_or(PriceDifference_calculate(closes),
                                   <<0, Float(0)>>)[2]
           sma == unwrap_or(WindowedSMA_calculate(WindowSize, closes), <<>>)
       IN <<[period_start |-> start,
             symbol |-> symbol,
             last_price |-> closes[Len(closes)],
             pct_change |-> Times(pct_change, 100),
             period_min |-> MinPrice_calculate(closes).val,
             period_max |-> MaxPrice_calculate(closes).val,
             sma |-> IF sma = <<>> THEN Float(0) ELSE sma[Len(sma)]]>>
  ELSE <<[period_start |-> start, symbol |-> symbol, last_price |-> 0,
          pct_change |-> Float(0), period_min |-> 0, period_max |-> 0,
          sma |-> Float(0)]>>

\* Variant of process_closing_data: the moving-average field is the first
\* element of the windowed average.
process_closing_data_first_sma(symbol, closes, start) ==
  IF closes # <<>>
  THEN LET pct_change == unwrap_or(PriceDifference_calculate(closes),
                                   <<0, Float(0)>>)[2]
           sma == unwrap_or(WindowedSMA_calculate(WindowSize, closes), <<>>)
       IN <<[period_start |-> start,
             symbol |-> symbol,
             last_price |-> closes[Len(closes)],
             pct_change |-> Times(pct_change, 100),
             period_min |-> MinPrice_calculate(closes).val,
             period_max |-> MaxPrice_calculate(closes).val,
             sma |-> IF sma = <<>> THEN Float(0) ELSE sma[1]]>>
  ELSE <<>>

\* process_closing_data: the lines it prints, none for an empty series and
\* one otherwise, with the values of the fields before they are formatted.
process_closing_data(symbol, closes, start) ==
  IF closes # <<>>
  THEN LET period_max == MaxPrice_calculate(closes).val
           period_min == MinPrice_calculate(closes).val
           last_price == closes[Len(closes)]
           pct_change == unwrap_or(PriceDifference_calculate(closes),
                                   <<0, Float(0)>>)[2]
           sma == unwrap_or(WindowedSMA_calculate(WindowSize, closes), <<>>)
       IN <<[period_start |-> start,
             symbol |-> symbol,
             last_price |-> last_price,
             pct_change |-> Times(pct_change, 100),
             period_min |-> period_min,
             period_max |-> period_max,
             sma |-> IF sma = <<>> THEN Float(0) ELSE sma[Len(sma)]]>>
  ELSE <<>>

(* --------------------------------- state ------------------------------- *)

VARIABLES
  symbols,    \* main: the symbol list
  from,       \* main: the start of the range
  to,         \* main: the end of the range
  now,        \* the clock
  deadline,   \* interval: when the next tick is due
  pc,         \* main: "waiting" in interval.tick(), "running" a batch, "exited"
  result,     \* what the latest run_symbols_report returned
  exit,       \* main's return value once exited
  tick,       \* number of ticks taken so far
  tasks,      \* the spawned tasks that are running or whose result is held
  out,        \* stdout: the records printed since the latest tick, in order
  log,        \* stderr: the join errors printed since the latest tick, in order
  starts,     \* clock values at which the latest two batches began
  ends,       \* clock value at which the latest finished batch returned
  calls,      \* number of get_quote_history calls made so far
  series,     \* a price series handed to the calculators
  window_size,\* the window_size of a WindowedSMA
  response,   \* a provider answer handed to fetch_closing_data
  signals,    \* what the four calculators returned for series, once run
  fetched,    \* what fetch_closing_data returned for response, once run
  line        \* what process_closing_data printed for series, once run

\* The inputs and results of the functions run on their own.
calcvars == <<series, window_size, response, signals, fetched, line>>

vars == <<symbols, from, to, now, deadline, pc, result, exit, tick, tasks,
          out, log, starts, ends, calls, calcvars>>

\* No function is being run on its own.
CalcIdle ==
  /\ series = <<>>
  /\ window_size = 0
  /\ response = [kind |-> "ok", quotes |-> <<>>]
  /\ signals = <<>>
  /\ fetched = <<>>
  /\ line = <<>>

\* let to = Utc::now(), read once before the loop; interval(period) makes
\* the first tick due at once.
Startup ==
  /\ to = StartupTime
  /\ now = StartupTime
  /\ deadline = StartupTime
  /\ pc = "waiting"
  /\ result = "none"
  /\ exit = "none"
  /\ tick = 0
  /\ tasks = <<>>
  /\ out = <<>>
  /\ log = <<>>
  /\ starts = <<>>
  /\ ends = <<>>
  /\ calls = 0

Init ==
  /\ symbols \in SymbolLists
  /\ from \in FromTimes
  /\ Startup
  /\ CalcIdle

(* ------------------------------- interval ------------------------------ *)

\* Variant of next_timeout, MissedTickBehavior::Burst: the missed ticks stay
\* due, one period after the deadline that was missed.
next_timeout_burst(timeout, t) == timeout + Period

\* MissedTickBehavior::Delay: the next tick is due one period after the
\* moment the late tick was delivered.
next_timeout(timeout, t) == t + Period

\* Interval::poll_tick: a tick delivered on time schedules the next one a
\* period after its own deadline, a late one by the missed-tick behaviour.
next_deadline(timeout, t) ==
  IF t > timeout THEN next_timeout(timeout, t) ELSE timeout + Period

(* -------------------------------- actions ------------------------------ *)

\* tokio::spawn of one worker of run_symbols_report for list entry i.
spawn(i) ==
  [tick |-> tick + 1, idx |-> i, symbol |-> symbols[i], from |-> from,
   to |-> to, status |-> "running", answer |-> "pending"]

Running(t) == t.status = "running"

\* The tasks of earlier spawns the runtime still runs.
StillRunning == SelectSeq(tasks, Running)

\* The latest two entries of a list.
LastTwo(s) == IF Len(s) <= 2 THEN s ELSE SubSeq(s, Len(s) - 1, Len(s))

\* main: interval.tick() returns and run_symbols_report(symbols.clone(),
\* from, to) spawns one task per list entry.
Tick ==
  /\ pc = "waiting"
  /\ now >= deadline
  /\ tick < MaxTicks
  /\ deadline' = next_deadline(deadline, now)
  /\ tick' = tick + 1
  /\ tasks' = StillRunning \o [i \in 1..Len(symbols) |-> spawn(i)]
  /\ starts' = LastTwo(Append(starts, now))
  /\ out' = <<>>
  /\ log' = <<>>
  /\ pc' = "running"
  /\ UNCHANGED <<symbols, from, to, now, result, exit, ends>>
  /\ UNCHANGED <<calls, calcvars>>

\* What the provider answered, as seen from outside the task.
Answer(resp) ==
  IF resp.kind # "ok" THEN "error"
  ELSE IF resp.quotes = <<>> THEN "empty" ELSE "quotes"

\* Variant of WorkerBody: a failed fetch is tried once more (and fails
\* again) before the failure is handed back.
WorkerBody_retries(t, resp) ==
  LET got == fetch_closing_data(resp) IN
  IF got.ok
  THEN [task |-> [t EXCEPT !.status = "ok", !.answer = Answer(resp)],
        printed |-> process_closing_data(t.symbol, got.closes, t.from),
        calls |-> 1]
  ELSE [task |-> [t EXCEPT !.status = "err", !.answer = Answer(resp)],
        printed |-> <<>>,
        calls |-> 2]

\* The body of a spawned task: fetch_closing_data makes its one request
\* and the answer arrives, `?` hands a fetch failure back as the task's
\* result, otherwise the series is processed and the task returns Ok(()).
\* calls is the number of requests the body made.
WorkerBody(t, resp) ==
  LET got == fetch_closing_data(resp) IN
  IF got.ok
  THEN [task |-> [t EXCEPT !.status = "ok", !.answer = Answer(resp)],
        printed |-> process_closing_data(t.symbol, got.closes, t.from),
        calls |-> 1]
  ELSE [task |-> [t EXCEPT !.status = "err", !.answer = Answer(resp)],
        printed |-> <<>>,
        calls |-> 1]

Worker(n, resp) ==
  /\ n \in 1..Len(tasks)
  /\ Running(tasks[n])
  /\ LET r == WorkerBody(tasks[n], resp) IN
       /\ tasks' = [tasks EXCEPT ![n] = r.task]
       /\ out' = out \o [j \in 1..Len(r.printed) |->
                           [tick |-> tasks[n].tick, idx |-> tasks[n].idx,
                            line |-> r.printed[j]]]
       /\ calls' = calls + r.calls
  /\ UNCHANGED <<symbols, from, to, now, deadline, pc, result, exit, tick,
                 log, starts, ends>>
  /\ UNCHANGED calcvars

\* A spawned task does not run to completion (it panics or is cancelled):
\* its JoinHandle resolves to Err(JoinError) and it prints nothing.  The
\* request is the first thing the body does, so it has been made.
WorkerFault(n) ==
  /\ n \in 1..Len(tasks)
  /\ Running(tasks[n])
  /\ tasks' = [tasks EXCEPT ![n].status = "panicked"]
  /\ calls' = calls + 1
  /\ UNCHANGED <<symbols, from, to, now, deadline, pc, result, exit, tick,
                 out, log, starts, ends>>
  /\ UNCHANGED calcvars

\* The tasks whose handles the current run_symbols_report holds.
Handles == SelectSeq(tasks, LAMBDA t : t.tick = tick)

\* Variant of join_all_ready: ready also as soon as one handle has
\* resolved to a fetch failure.
join_until_failure_ready(hs) ==
  \/ \A i \in 1..Len(hs) : ~Running(hs[i])
  \/ \E i \in 1..Len(hs) : hs[i].status = "err"

\* Variant of join_all_ready: ready as soon as one handle has resolved.
join_any_ready(hs) == \E i \in 1..Len(hs) : ~Running(hs[i])

\* join_all(tasks) is ready once every handle has resolved.
join_all_ready(hs) == \A i \in 1..Len(hs) : ~Running(hs[i])

\* The join errors among hs, as the loop prints them.
JoinErrors(hs) ==
  LET faulted == SelectSeq(hs, LAMBDA h : h.status = "panicked") IN
  [i \in 1..Len(faulted) |-> [tick |-> faulted[i].tick, idx |-> faulted[i].idx]]

\* Variant of report_loop: a later result overwrites an earlier failure
\* (the result of the last task that completed is returned).
report_loop_last_wins(hs) ==
  LET done == SelectSeq(hs, LAMBDA h : h.status # "panicked") IN
  [result |-> IF done # <<>> /\ done[Len(done)].status = "err"
              THEN "InvalidData" ELSE "Ok",
   logged |-> JoinErrors(hs)]

\* Variant of report_loop: a join error is returned like a fetch failure.
RECURSIVE report_loop_fault_fatal(_)
report_loop_fault_fatal(hs) ==
  IF hs = <<>> THEN [result |-> "Ok", logged |-> <<>>]
  ELSE IF Head(hs).status = "err"
       THEN [result |-> "InvalidData", logged |-> <<>>]
  ELSE IF Head(hs).status = "panicked"
       THEN [result |-> "InvalidData",
             logged |-> <<[tick |-> Head(hs).tick, idx |-> Head(hs).idx]>>]
  ELSE report_loop_fault_fatal(Tail(hs))

\* Variant of report_loop: a join error is skipped without being printed.
RECURSIVE report_loop_silent(_)
report_loop_silent(hs) ==
  IF hs = <<>> THEN [result |-> "Ok", logged |-> <<>>]
  ELSE IF Head(hs).status = "err"
       THEN [result |-> "InvalidData", logged |-> <<>>]
  ELSE report_loop_silent(Tail(hs))

\* The for loop over the join results, in list order: the first fetch
\* failure is returned at once, a join error is printed and skipped.
RECURSIVE report_loop(_)
report_loop(hs) ==
  IF hs = <<>> THEN [result |-> "Ok", logged |-> <<>>]
  ELSE IF Head(hs).status = "err"
       THEN [result |-> "InvalidData", logged |-> <<>>]
  ELSE IF Head(hs).status = "panicked"
       THEN LET rest == report_loop(Tail(hs)) IN
            [result |-> rest.result,
             logged |-> <<[tick |-> Head(hs).tick, idx |-> Head(hs).idx]>>
                        \o rest.logged]
  ELSE report_loop(Tail(hs))

\* Variant of Join: main drops the batch result and always loops.
Join_result_dropped ==
  /\ pc = "running"
  /\ join_all_ready(Handles)
  /\ LET r == report_loop(Handles) IN
       /\ log' = log \o r.logged
       /\ result' = r.result
  /\ pc' = "waiting"
  /\ ends' = <<now>>
  /\ UNCHANGED <<symbols, from, to, now, deadline, exit, tick, tasks, out,
                 starts>>
  /\ UNCHANGED <<calls, calcvars>>

\* Variant of Join: main returns Ok(()) after a batch that succeeded
\* instead of looping.
Join_returns_on_success ==
  /\ pc = "running"
  /\ join_all_ready(Handles)
  /\ LET r == report_loop(Handles) IN
       /\ log' = log \o r.logged
       /\ result' = r.result
       /\ exit' = r.result
  /\ pc' = "exited"
  /\ ends' = <<now>>
  /\ UNCHANGED <<symbols, from, to, now, deadline, tick, tasks, out, starts>>
  /\ UNCHANGED <<calls, calcvars>>

\* run_symbols_report returns to main: `?` leaves main on a failure,
\* otherwise the loop goes back to interval.tick().
Join ==
  /\ pc = "running"
  /\ join_all_ready(Handles)
  /\ LET r == report_loop(Handles) IN
       /\ log' = log \o r.logged
       /\ result' = r.result
       /\ IF r.result = "Ok"
          THEN pc' = "waiting" /\ exit' = exit
          ELSE pc' = "exited" /\ exit' = r.result
  /\ ends' = <<now>>
  /\ UNCHANGED <<symbols, from, to, now, deadline, tick, tasks, out, starts>>
  /\ UNCHANGED <<calls, calcvars>>

\* Time passes.
Advance ==
  /\ pc # "exited"
  /\ now + Quantum <= MaxTime
  /\ now' = now + Quantum
  /\ UNCHANGED <<symbols, from, to, deadline, pc, result, exit, tick, tasks,
                 out, log, starts, ends>>
  /\ UNCHANGED <<calls, calcvars>>

Next ==
  \/ Tick
  \/ \E n \in 1..(2 * MaxSymbols), resp \in ProviderResponses : Worker(n, resp)
  \/ \E n \in 1..(2 * MaxSymbols) : WorkerFault(n)
  \/ Join
  \/ Advance

Spec == Init /\ [][Next]_vars

(* ------------------------- the unbounded loop -------------------------- *)

\* The loop runs for ever, the model follows MaxTicks ticks and MaxTime
\* units of it.  Between two batches nothing of the past matters to the
\* loop but how far away the next deadline is, so when either bound is
\* reached while main waits in interval.tick(), the run is followed on
\* from a new origin: the clock and the tick count restart, the deadline
\* keeps its distance to the clock (a deadline that has passed is late by
\* one unit: a late tick is rescheduled from the clock alone), the finished
\* tasks and the printed lines are dropped.
Rebase ==
  /\ pc = "waiting"
  /\ tick = MaxTicks \/ now + Quantum > MaxTime
  /\ now' = StartupTime
  /\ deadline' = StartupTime + (IF deadline < now THEN -1 ELSE deadline - now)
  /\ tick' = 0
  /\ tasks' = StillRunning
  /\ out' = <<>>
  /\ log' = <<>>
  /\ starts' = <<>>
  /\ ends' = <<>>
  /\ calls' = 0
  /\ UNCHANGED <<symbols, from, to, pc, result, exit>>
  /\ UNCHANGED calcvars

NextLive == Next \/ Rebase

\* A running task takes its step: its fetch returns, or it faults.
WorkerStep ==
  \E n \in 1..(2 * MaxSymbols) :
    (\E resp \in ProviderResponses : Worker(n, resp)) \/ WorkerFault(n)

\* The timer keeps firing and time keeps passing, the runtime keeps
\* running spawned tasks while there are any (so every launched fetch
\* returns), and main is scheduled when join_all is ready.
Fairness ==
  /\ WF_vars(Tick)
  /\ WF_vars(Advance)
  /\ WF_vars(Join)
  /\ WF_vars(Rebase)
  /\ WF_vars(WorkerStep)

\* The loop is followed for the longest symbol list, the first default
\* symbols, and a start before the startup time: neither the names nor
\* the start take part in the control of the loop.
InitLive ==
  /\ symbols = SubSeq(DefaultSymbols, 1, MaxSymbols)
  /\ from \in {f \in FromTimes : f < StartupTime}
  /\ Startup
  /\ CalcIdle

SpecLive == InitLive /\ [][NextLive]_vars /\ Fairness

(* ----------------------- the functions on their own ------------------- *)

\* Longest series of which every content is tried.
MaxLen == 3
\* The long series are up to this much shorter or longer than WindowSize.
Slack == 2
\* Most quotes of an answer handed to fetch_closing_data on its own.
MaxFetch == 3

CalcPrices == {-1, 0, 1, 2}

\* Every series of up to MaxLen prices.
ShortSeries == UNION { [1..n -> CalcPrices] : n \in 0..MaxLen }

\* Series about as long as the window of process_closing_data: a run of
\* one price followed by a run of another.
LongSeries ==
  { [i \in 1..n |-> IF i <= k THEN a ELSE b] :
      n \in (WindowSize - Slack)..(WindowSize + Slack),
      k \in {0, 1, WindowSize - 1, WindowSize},
      a \in CalcPrices, b \in CalcPrices }

WindowSizes == 0..(MaxLen + 1)

FetchPrices == {1, 2, 3}

FetchQuotes == [timestamp : Timestamps, adjclose : FetchPrices]

FetchResponses ==
  {[kind |-> "request_error", quotes |-> <<>>],
   [kind |-> "quotes_error", quotes |-> <<>>]}
  \cup {[kind |-> "ok", quotes |-> q] :
          q \in UNION { [1..n -> FetchQuotes] : n \in 0..MaxFetch }}

InitCalc ==
  /\ symbols = <<DefaultSymbols[1]>>
  /\ from \in {f \in FromTimes : f < StartupTime}
  /\ Startup
  /\ signals = <<>>
  /\ fetched = <<>>
  /\ line = <<>>
  /\ \/ /\ series \in ShortSeries
        /\ window_size \in WindowSizes
        /\ response = [kind |-> "ok", quotes |-> <<>>]
     \/ /\ series \in LongSeries
        /\ window_size = WindowSize
        /\ response = [kind |-> "ok", quotes |-> <<>>]
     \/ /\ series = <<>>
        /\ window_size = 0
        /\ response \in FetchResponses

schedvars == <<symbols, from, to, now, deadline, pc, result, exit, tick, tasks,
               out, log, starts, ends, calls>>

\* The four calculators are run on series.
Calculate ==
  /\ signals = <<>>
  /\ signals' = <<[diff |-> PriceDifference_calculate(series),
                   min |-> MinPrice_calculate(series),
                   max |-> MaxPrice_calculate(series),
                   sma |-> WindowedSMA_calculate(window_size, series)]>>
  /\ UNCHANGED <<schedvars, series, window_size, response, fetched, line>>

\* process_closing_data is run on series.
Process ==
  /\ line = <<>>
  /\ line' = <<process_closing_data(symbols[1], series, from)>>
  /\ UNCHANGED <<schedvars, series, window_size, response, signals, fetched>>

\* fetch_closing_data is run on response.
Fetch ==
  /\ fetched = <<>>
  /\ fetched' = <<fetch_closing_data(response)>>
  /\ UNCHANGED <<schedvars, series, window_size, response, signals, line>>

NextCalc == Calculate \/ Process \/ Fetch

SpecCalc == InitCalc /\ [][NextCalc]_vars

(* ------------------------- batch outcome (C1-C3) ----------------------- *)

\* The batch of the latest tick has returned to main.
BatchReturned == tick >= 1 /\ pc \in {"waiting", "exited"}

Faulted(h) == h.status = "panicked"
FetchFailed(h) == h.status = "err"

\* Entry i of the batch is listed before every fetch failure of the batch.
BeforeFirstFailure(i) == \A j \in 1..(i - 1) : ~FetchFailed(Handles[j])

Logged(h) == \E k \in 1..Len(log) : log[k] = [tick |-> h.tick, idx |-> h.idx]

\* C1: a batch in which every task ran to completion and at least one
\* worker's fetch failed returns failure, however many siblings succeeded
\* and in whatever order the tasks completed.
C1_FetchFailureFailsBatch ==
  (/\ BatchReturned
   /\ \A i \in 1..Len(Handles) : ~Faulted(Handles[i])
   /\ \E i \in 1..Len(Handles) : FetchFailed(Handles[i]))
  => result = "InvalidData"

\* A returned batch of two tasks, the first succeeded and printed its
\* record before the second one's fetch failed.
C1_Witness ==
  /\ BatchReturned
  /\ Len(Handles) = 2
  /\ Handles[1].status = "ok" /\ Handles[1].answer = "quotes"
  /\ FetchFailed(Handles[2])
  /\ Len(out) = 1
  /\ result = "InvalidData"

\* C2: a task execution fault never makes the batch fail: a returned batch
\* without a fetch failure has returned success, however many of its tasks
\* faulted, and a fetch failure listed after a faulted task is still
\* returned.
C2_FaultIsNotFatal ==
  BatchReturned =>
    /\ (\A i \in 1..Len(Handles) : ~FetchFailed(Handles[i])) => result = "Ok"
    /\ (\E i, j \in 1..Len(Handles) :
          i < j /\ Faulted(Handles[i]) /\ FetchFailed(Handles[j]))
       => result = "InvalidData"

\* A batch all of whose tasks faulted has returned success.
C2_Witness ==
  /\ BatchReturned
  /\ Len(Handles) = 2
  /\ \A i \in 1..Len(Handles) : Faulted(Handles[i])
  /\ result = "Ok"
  /\ pc = "waiting"

\* C3 as stated: every task of a returned batch that faulted has its log
\* entry, also when the batch contains a fetch failure.
C3_EveryFaultLogged ==
  BatchReturned =>
    \A i \in 1..Len(Handles) : Faulted(Handles[i]) => Logged(Handles[i])

\* C3 as amended: when a batch has returned, the faulted tasks that have a
\* log entry are exactly those listed before the first fetch failure of the
\* batch (all of them when no fetch failed).
C3_FaultLoggedBeforeFirstFailure ==
  BatchReturned =>
    \A i \in 1..Len(Handles) :
      Faulted(Handles[i]) => (Logged(Handles[i]) <=> BeforeFirstFailure(i))

\* A returned batch whose first task faulted and was logged and whose
\* second task's fetch failed.
C3_Witness ==
  /\ BatchReturned
  /\ Len(Handles) = 2
  /\ Faulted(Handles[1]) /\ Logged(Handles[1])
  /\ FetchFailed(Handles[2])
  /\ result = "InvalidData"


(* --------------------------- time range (C4) --------------------------- *)

\* C4 as stated: every task of the latest tick was given the fixed start
\* and, as end, the clock value at which that tick's batch began.
C4_EndIsNowAtBatchStart ==
  \A n \in 1..Len(tasks) :
    tasks[n].tick = tick =>
      tasks[n].from = from /\ tasks[n].to = starts[Len(starts)]

(* ------------------------ sequential batches (C5) ---------------------- *)

\* C5: every in-flight task belongs to the latest tick and its batch has
\* not returned, so no batch starts while a task of an earlier one runs.
C5_BatchesSequential ==
  \A n \in 1..Len(tasks) :
    Running(tasks[n]) => tasks[n].tick = tick /\ pc = "running"

\* The second batch in flight, both its tasks running.
C5_Witness ==
  /\ tick = 2
  /\ pc = "running"
  /\ Len(tasks) = 2
  /\ \A n \in 1..Len(tasks) : Running(tasks[n])

(* --------------------------- loop exit (C6) ---------------------------- *)

\* C6: main has left its loop exactly when a batch returned failure, it
\* returns that failure, and from then on no tick is taken, no task is
\* spawned or changes and nothing is printed; after a batch that returned
\* success main is back in interval.tick() (or already in the next batch).
C6_ExitOnlyOnFailure ==
  /\ [](pc = "exited" <=> result = "InvalidData")
  /\ [](pc = "exited" => exit = result)
  /\ [](pc # "exited" => exit = "none")
  /\ [][result = "InvalidData" =>
          tick' = tick /\ tasks' = tasks /\ out' = out /\ pc' = pc]_vars

\* main exited at the second tick, after a first batch that printed.
C6_Witness ==
  /\ pc = "exited"
  /\ tick = 2
  /\ exit = "InvalidData"
  /\ \E n \in 1..Len(tasks) : tasks[n].status = "ok"

(* -------------------------- unbounded loop (C7) ------------------------ *)

NoFetchFailed == \A n \in 1..Len(tasks) : ~FetchFailed(tasks[n])

\* C7: if no worker's fetch ever fails, every batch that is started
\* returns and after every batch another one is started, for ever; main
\* never leaves the loop.
C7_LoopUnbounded ==
  []NoFetchFailed =>
    /\ (pc = "running") ~> (pc = "waiting")
    /\ (pc = "waiting") ~> (pc = "running")
    /\ [](pc # "exited")

\* The loop has gone on past the bounds: a batch is in flight, the first
\* since the run was followed from a new origin, after batches that
\* returned success.
C7_Witness ==
  /\ pc = "running"
  /\ tick = 1
  /\ result = "Ok"
  /\ NoFetchFailed
  /\ \E n \in 1..Len(tasks) : Running(tasks[n])

(* ------------------------- missed ticks (C8, C9) ----------------------- *)

\* C8: the latest two batches began at least one period apart.
C8_StartsOnePeriodApart ==
  Len(starts) = 2 => starts[2] - starts[1] >= Period

\* The first batch took three periods (it overran by two), and the third
\* batch has begun a period after the second.
C8_Witness ==
  /\ tick = 3
  /\ Len(starts) = 2
  /\ starts[1] = StartupTime + 3 * Period
  /\ starts[2] = starts[1] + Period

\* The batch of the latest tick is in flight and the batch before it took
\* longer than the period.
PreviousOverran ==
  /\ pc = "running"
  /\ Len(starts) = 2
  /\ ends # <<>>
  /\ ends[1] - starts[1] > Period

\* The latest batch has returned after more than a period and main waits
\* in interval.tick().
LatestOverran ==
  /\ pc = "waiting"
  /\ tick >= 1
  /\ ends # <<>>
  /\ ends[1] - starts[Len(starts)] > Period

\* C9 as stated: after a batch that took longer than the period, the next
\* batch begins one period after that batch returned.
C9_NextStartsPeriodAfterCompletion ==
  PreviousOverran => starts[2] = ends[1] + Period

\* C9 as amended: when a batch that took longer than the period returns,
\* the next tick is already due, so interval.tick() adds no delay; the
\* period is counted from the start of the batch that follows, to the tick
\* after it.
C9_NextDueAtCompletion ==
  /\ LatestOverran => deadline <= ends[1]
  /\ PreviousOverran => deadline = starts[2] + Period

\* A batch that overran, and the next batch begun at the moment it returned.
C9_Witness ==
  /\ PreviousOverran
  /\ starts[2] = ends[1]
  /\ deadline = starts[2] + Period

(* --------------------------- empty series (C10) ------------------------ *)

Printed(t) ==
  \E k \in 1..Len(out) : out[k].tick = t.tick /\ out[k].idx = t.idx

\* C10: a task whose fetch gave an empty series returns Ok(()) and prints
\* no record, and a batch all of whose fetches gave an empty series
\* returns success with nothing printed.
C10_EmptySeriesIsSilentSuccess ==
  /\ \A n \in 1..Len(tasks) :
       tasks[n].answer = "empty" =>
         tasks[n].status = "ok" /\ ~Printed(tasks[n])
  /\ (BatchReturned /\ \A i \in 1..Len(Handles) : Handles[i].answer = "empty")
       => result = "Ok" /\ out = <<>>

\* A returned batch of two tasks whose fetches both gave an empty series.
C10_Witness ==
  /\ BatchReturned
  /\ Len(Handles) = 2
  /\ \A i \in 1..Len(Handles) : Handles[i].answer = "empty"
  /\ result = "Ok"
  /\ out = <<>>

(* ------------------------ windowed average (C11, C12) ------------------ *)

\* The calculators have been run on series.
Calculated == signals # <<>>

Sma == signals[1].sma

\* max(0, len(S) - W + 1)
WindowCount(len, w) == IF len - w + 1 > 0 THEN len - w + 1 ELSE 0

\* C11, as stated: for every series of at least one price and every window
\* size W >= 1 the windowed average is a sequence of exactly
\* max(0, len(S) - W + 1) elements.
C11_CountForEveryPositiveWindow ==
  (Calculated /\ Len(series) >= 1 /\ window_size >= 1)
    => Sma.some /\ Len(Sma.val) = WindowCount(Len(series), window_size)

\* C11, amended: for every series of at least one price and every window
\* size W >= 2 the windowed average is a sequence of exactly
\* max(0, len(S) - W + 1) elements; for W = 1 it is absence.
C11_CountForWindowsOverOne ==
  (Calculated /\ Len(series) >= 1) =>
    /\ window_size >= 2 =>
         Sma.some /\ Len(Sma.val) = WindowCount(Len(series), window_size)
    /\ window_size = 1 => ~Sma.some

\* Three prices and a window of two: two averages.
C11_Witness ==
  /\ Calculated
  /\ Len(series) = 3
  /\ window_size = 2
  /\ Sma.some
  /\ Len(Sma.val) = 2

\* C12: the windowed average is absence exactly when the series is empty
\* or the window size is at most 1 (0 included), and for a series that is
\* not empty and a window longer than it, it is a present, empty sequence.
C12_AbsenceExactlyWhenEmptyOrSmallWindow ==
  Calculated =>
    /\ ~Sma.some <=> (series = <<>> \/ window_size <= 1)
    /\ (series # <<>> /\ window_size > Len(series))
         => Sma.some /\ Sma.val = <<>>

\* One price and a window of two: present and empty.
C12_Witness ==
  /\ Calculated
  /\ Len(series) = 1
  /\ window_size = 2
  /\ Sma.some
  /\ Sma.val = <<>>

(* --------------------------- minimum, maximum (C13) -------------------- *)

Min == signals[1].min
Max == signals[1].max

\* C13: for a series that is not empty the minimum is at most every
\* element, every element is at most the maximum, the minimum is at most
\* the maximum, and both are values of the series; for the empty series
\* both are absence.
C13_MinMaxBoundTheSeries ==
  Calculated =>
    IF series = <<>>
    THEN ~Min.some /\ ~Max.some
    ELSE /\ Min.some /\ Max.some
         /\ \A i \in 1..Len(series) :
              Min.val <= series[i] /\ series[i] <= Max.val
         /\ Min.val <= Max.val
         /\ \E i \in 1..Len(series) : series[i] = Min.val
         /\ \E i \in 1..Len(series) : series[i] = Max.val

\* A series of positive prices whose minimum and maximum differ.
C13_Witness ==
  /\ Calculated
  /\ series = <<2, 1, 2>>
  /\ Min = Some(1)
  /\ Max = Some(2)

(* ------------------------------ difference (C14) ----------------------- *)

Diff == signals[1].diff

\* The fraction q is the finite quotient of a by b, b not zero.
IsQuotient(q, a, b) == q.d > 0 /\ q.n * b = a * q.d

\* C14: the difference is absence on the empty series and otherwise the
\* pair (last - first, (last - first) / d), d = 1 when first is 0 and
\* d = first otherwise; the quotient is finite, the difference of a
\* one-price series is (0, 0), and when first is 0 the relative value is
\* the absolute value.
C14_DifferenceWithGuardedDivisor ==
  Calculated =>
    IF series = <<>>
    THEN ~Diff.some
    ELSE LET first == series[1]
             last == series[Len(series)]
             d == IF first = 0 THEN 1 ELSE first
         IN /\ Diff.some
            /\ Diff.val[1] = last - first
            /\ IsQuotient(Diff.val[2], last - first, d)
            /\ Len(series) = 1 => Diff.val = <<0, Float(0)>>
            /\ first = 0 => Diff.val[2] = Float(Diff.val[1])

\* A series that starts at 0 and ends elsewhere.
C14_Witness ==
  /\ Calculated
  /\ series = <<0, 2>>
  /\ Diff = Some(<<2, Float(2)>>)

(* --------------------------- provider calls (C15) ---------------------- *)

\* The tasks of the current batch whose handle has resolved.
Finished == SelectSeq(Handles, LAMBDA t : ~Running(t))

\* C15: in every tick each entry of the symbol list, duplicates counted
\* separately, has exactly one task, and every task makes exactly one
\* provider call whether its fetch fails or not and whatever was fetched
\* in earlier ticks: after k batches over N symbols k * N calls were made.
C15_OneCallPerEntryPerTick ==
  /\ tick >= 1 =>
       /\ Len(Handles) = Len(symbols)
       /\ \A i \in 1..Len(Handles) :
            Handles[i].idx = i /\ Handles[i].symbol = symbols[i]
       /\ calls = (tick - 1) * Len(symbols) + Len(Finished)
  /\ BatchReturned => calls = tick * Len(symbols)
  /\ tick = 0 => calls = 0

\* Two batches over a list that names the same symbol twice, the second
\* with a failed fetch: four calls.
C15_Witness ==
  /\ BatchReturned
  /\ tick = 2
  /\ Len(symbols) = 2
  /\ symbols[1] = symbols[2]
  /\ \E i \in 1..Len(Handles) : FetchFailed(Handles[i])
  /\ calls = 4

(* ------------------------------ records (C16) -------------------------- *)

\* C16: a record is printed for a list entry only if the entry's fetch
\* returned quotes, and at most one per entry and tick; a task whose fetch
\* failed prints nothing and returns the failure, and a task returns a
\* failure only if its fetch failed.
C16_RecordOnlyForFetchedSeries ==
  /\ \A k \in 1..Len(out) :
       \E n \in 1..Len(tasks) :
         /\ tasks[n].tick = out[k].tick
         /\ tasks[n].idx = out[k].idx
         /\ tasks[n].answer = "quotes"
         /\ tasks[n].status = "ok"
         /\ out[k].line.symbol = tasks[n].symbol
  /\ \A k, l \in 1..Len(out) :
       (out[k].tick = out[l].tick /\ out[k].idx = out[l].idx) => k = l
  /\ \A n \in 1..Len(tasks) :
       /\ tasks[n].answer = "error" => FetchFailed(tasks[n]) /\ ~Printed(tasks[n])
       /\ FetchFailed(tasks[n]) => tasks[n].answer = "error"

\* A batch of two in which one fetch returned quotes and its record is
\* printed, and the other failed.
C16_Witness ==
  /\ Len(Handles) = 2
  /\ Handles[1].answer = "error"
  /\ Handles[2].answer = "quotes"
  /\ Len(out) = 1
  /\ out[1].idx = 2

(* -------------------------- moving average (C17) ----------------------- *)

\* process_closing_data has been run on series.
Processed == line # <<>>

\* C17: process_closing_data prints one record for every series that is
\* not empty, whatever its length; the moving-average field of the record
\* is the last element of the windowed average over WindowSize prices,
\* the mean of the final WindowSize prices, when the series has at least
\* that many, and 0.0 when it has fewer.
C17_MovingAverageFieldIsLastWindow ==
  (Processed /\ series # <<>>) =>
    /\ Len(line[1]) = 1
    /\ LET n == Len(series)
           field == line[1][1].sma
           sma == WindowedSMA_calculate(WindowSize, series)
       IN IF n >= WindowSize
          THEN /\ sma.some
               /\ field = sma.val[Len(sma.val)]
               /\ IsQuotient(field,
                             sum(SubSeq(series, n - WindowSize + 1, n)),
                             WindowSize)
          ELSE field = Float(0)

\* A series one longer than the window whose first price differs from
\* the others: the field is the mean of the final WindowSize prices.
C17_Witness ==
  /\ Processed
  /\ Len(series) = WindowSize + 1
  /\ series[1] = 1
  /\ \A i \in 2..Len(series) : series[i] = 2
  /\ line[1][1].sma = Float(2)

(* ------------------------ batch and its tasks (C18, C19) --------------- *)

\* C18: when a batch has returned, with success or with failure, no task
\* is running and every task of the batch whose fetch returned quotes has
\* printed its record; while a batch runs, the only tasks running are
\* its own.
C18_BatchReturnsAfterAllTasks ==
  /\ BatchReturned =>
       /\ \A n \in 1..Len(tasks) : ~Running(tasks[n])
       /\ \A i \in 1..Len(Handles) :
            Handles[i].answer = "quotes" => Printed(Handles[i])
  /\ \A n \in 1..Len(tasks) : Running(tasks[n]) => tasks[n].tick = tick

\* A batch that returned a fetch failure of its first task, with the
\* record of the second task printed.
C18_Witness ==
  /\ BatchReturned
  /\ result = "InvalidData"
  /\ Len(Handles) = 2
  /\ FetchFailed(Handles[1])
  /\ Handles[2].answer = "quotes"
  /\ Printed(Handles[2])

\* The results the handles of a batch resolved to, in no order.
Outcomes == {Handles[i].status : i \in 1..Len(Handles)}

\* C19: the result of a batch is the same however its tasks interleave:
\* it is decided by the results the tasks returned, failure if one of
\* them is a fetch failure and success otherwise, and neither by the
\* order in which the tasks completed nor by the order of the records.
C19_ResultIndependentOfInterleaving ==
  BatchReturned =>
    result = IF "err" \in Outcomes THEN "InvalidData" ELSE "Ok"

\* A returned batch of two whose fetches both returned quotes and whose
\* records were printed in the reverse of the list order.
C19_Witness ==
  /\ BatchReturned
  /\ result = "Ok"
  /\ Len(Handles) = 2
  /\ \A i \in 1..Len(Handles) : Handles[i].answer = "quotes"
  /\ Len(out) = 2
  /\ out[1].idx = 2
  /\ out[2].idx = 1

(* -------------------------------- fetcher (C20) ------------------------ *)

\* fetch_closing_data has been run on response.
Fetched == fetched # <<>>

Bijections(n) ==
  {p \in [1..n -> 1..n] : \A i, j \in 1..n : p[i] = p[j] => i = j}

\* closes are the closing prices of exactly the quotes qs, in
\* non-decreasing order of timestamp, quotes of equal timestamp in the
\* order of qs.
IsStableSortedCloses(closes, qs) ==
  /\ Len(closes) = Len(qs)
  /\ \E p \in Bijections(Len(qs)) :
       /\ \A i \in 1..Len(qs) : closes[i] = qs[p[i]].adjclose
       /\ \A i, j \in 1..Len(qs) :
            i < j =>
              \/ qs[p[i]].timestamp < qs[p[j]].timestamp
              \/ qs[p[i]].timestamp = qs[p[j]].timestamp /\ p[i] < p[j]

\* C20: when the provider answers with quotes the fetcher succeeds with
\* the closing prices of exactly those quotes in non-decreasing order of
\* timestamp, quotes of equal timestamp in the provider's order; with no
\* quotes it succeeds with the empty series; on either provider error it
\* fails with InvalidData.
C20_FetcherReturnsStableSortedCloses ==
  Fetched =>
    IF response.kind = "ok"
    THEN /\ fetched[1].ok
         /\ IsStableSortedCloses(fetched[1].closes, response.quotes)
         /\ response.quotes = <<>> => fetched[1].closes = <<>>
    ELSE ~fetched[1].ok /\ fetched[1].err = "InvalidData"

\* Three quotes out of order, two of them with the same timestamp.
C20_Witness ==
  /\ Fetched
  /\ response.kind = "ok"
  /\ response.quotes = <<[timestamp |-> 2, adjclose |-> 1],
                         [timestamp |-> 1, adjclose |-> 3],
                         [timestamp |-> 1, adjclose |-> 2]>>
  /\ fetched[1].ok
  /\ fetched[1].closes = <<3, 2, 1>>

====
